---- MODULE Spec2Model ----
(***************************************************************************)
(* A model of gfa-reader (src/src/lib.rs): the string-keyed graph Gfa, the *)
(* numeric graph NCGfa, their line parsers and the helpers around them.    *)
(* Text is a sequence of one-character strings; a file is the sequence of  *)
(* its lines (what BufRead::lines yields), or NoFile when the path names   *)
(* no file.  A call that panics (an unwrap on None/Err, an index out of    *)
(* range) ends the program: pc = "panic".                                  *)
(***************************************************************************)
EXTENDS Integers, Sequences, FiniteSets, TLC

VARIABLES file, pc, call, gfa, nc, res, par, graph

vars == <<file, pc, call, gfa, nc, res, par, graph>>

\* ------------------------------------------------------------------ bounds

\* Longest file body (lines after the first line) the model enumerates.
MaxBody == 2

\* How often convert_walks may be called on one graph.
MaxConvert == 2

\* How often a parsed NCGfa may parse the file again.
MaxParse == 2

\* How often remove_mapper may be called on one graph.
MaxRemove == 2

\* P lines in a file handed to Pansn::from_graph.
MaxPaths == 3

\* ------------------------------------------------------------------ text

TAB == "\t"

SPACE == " "

Digits == <<"0", "1", "2", "3", "4", "5", "6", "7", "8", "9">>

\* char::is_ascii_digit
is_ascii_digit(c) == \E i \in 1..10 : Digits[i] = c

\* char::is_whitespace, for the characters that occur in the model's files
is_whitespace(c) == c \in {TAB, SPACE}

DigitVal(c) == (CHOOSE i \in 1..10 : Digits[i] = c) - 1

RECURSIVE SplitAcc(_, _, _, _)
SplitAcc(s, seps, i, cur) ==
    IF i > Len(s) THEN <<cur>>
    ELSE IF s[i] \in seps THEN <<cur>> \o SplitAcc(s, seps, i + 1, <<>>)
    ELSE SplitAcc(s, seps, i + 1, Append(cur, s[i]))

\* str::split(char) and str::split(&[char]): the fields between separators,
\* empty fields included; the empty text has one (empty) field.
Split(s, seps) == SplitAcc(s, seps, 1, <<>>)

\* str::split_whitespace: the non-empty fields between whitespace.
split_whitespace(s) == SelectSeq(Split(s, {TAB, SPACE}), LAMBDA f : f # <<>>)

\* The rest of a sequence from position i on (what is left in an iterator
\* after i-1 calls of next()).
Rest(s, i) == IF i > Len(s) THEN <<>> ELSE SubSeq(s, i, Len(s))

\* [String]::join(sep): the texts with sep between them.
RECURSIVE Join(_, _)
Join(fields, sep) ==
    IF Len(fields) = 0 THEN <<>>
    ELSE IF Len(fields) = 1 THEN fields[1]
    ELSE fields[1] \o sep \o Join(Rest(fields, 2), sep)

RECURSIVE DecVal(_)
DecVal(s) == IF s = <<>> THEN 0 ELSE 10 * DecVal(SubSeq(s, 1, Len(s) - 1)) + DigitVal(s[Len(s)])

AllDigits(s) == \A i \in 1..Len(s) : is_ascii_digit(s[i])

\* str::parse::<u32>() / ::<usize>(): an optional '+', then one or more
\* digits (the model's numbers stay far below the types' widths).
ParseUInt(s) ==
    LET body == IF s # <<>> /\ s[1] = "+" THEN Rest(s, 2) ELSE s
    IN  IF body # <<>> /\ AllDigits(body)
        THEN [ok |-> TRUE, val |-> DecVal(body)]
        ELSE [ok |-> FALSE, val |-> 0]

RECURSIVE DecText(_)
DecText(n) == IF n < 10 THEN <<Digits[n + 1]>> ELSE Append(DecText(n \div 10), Digits[(n % 10) + 1])

\* usize::to_string
to_string(n) == DecText(n)

\* str::parse::<f32>() on the decimal forms "d+", "d+.d*" and ".d+"; the
\* result keeps what the parser compares: whether the value is below 2.0.
ParseF32(s) ==
    LET parts == Split(s, {"."})
        ip == parts[1]
        fp == IF Len(parts) = 2 THEN parts[2] ELSE <<>>
        okk == /\ Len(parts) \in {1, 2}
               /\ AllDigits(ip) /\ AllDigits(fp)
               /\ ip \o fp # <<>>
    IN  [ok |-> okk, below2 |-> okk /\ DecVal(ip) < 2]

Upper ==
    <<"A", "B", "C", "D", "E", "F", "G", "H", "I", "J", "K", "L", "M", "N", "O", "P", "Q",
      "R", "S", "T", "U", "V", "W", "X", "Y", "Z">>

Lower ==
    <<"a", "b", "c", "d", "e", "f", "g", "h", "i", "j", "k", "l", "m", "n", "o", "p", "q",
      "r", "s", "t", "u", "v", "w", "x", "y", "z">>

\* The byte of a character (ASCII), for the characters of the model's files.
Byte(c) ==
    CASE c = TAB -> 9
      [] c = SPACE -> 32
      [] c = "#" -> 35
      [] c = "$" -> 36
      [] c = "*" -> 42
      [] c = "+" -> 43
      [] c = "," -> 44
      [] c = "-" -> 45
      [] c = "." -> 46
      [] c = ":" -> 58
      [] c = "<" -> 60
      [] c = ">" -> 62
      [] c = "_" -> 95
      [] is_ascii_digit(c) -> 48 + DigitVal(c)
      [] \E i \in 1..26 : Upper[i] = c -> 64 + (CHOOSE i \in 1..26 : Upper[i] = c)
      [] OTHER -> 96 + (CHOOSE i \in 1..26 : Lower[i] = c)

\* The key of a text in the order of str: its bytes.
TextKey(t) == [i \in 1..Len(t) |-> Byte(t[i])]

\* ------------------------------------------------------------------ Option

None == [some |-> FALSE, val |-> <<>>]

Some(v) == [some |-> TRUE, val |-> v]

\* ------------------------------------------------------------------ Header

EmptyHeader == [tag |-> <<>>, typ |-> <<>>, version_number |-> <<>>]

Header_from_string(line) ==
    LET ws == split_whitespace(line)
        f == IF Len(ws) >= 2 THEN Split(ws[2], {":"}) ELSE <<>>
    IN  IF Len(ws) < 2 \/ Len(f) < 3
        THEN [ok |-> FALSE, val |-> EmptyHeader]
        ELSE [ok |-> TRUE, val |-> [tag |-> f[1], typ |-> f[2], version_number |-> f[3]]]

\* get_version: the third ':'-field of the second whitespace-field of the
\* FIRST line of the file, as f32.
get_version(f) ==
    IF Len(f) = 0 THEN [ok |-> FALSE, below2 |-> FALSE]
    ELSE LET ws == split_whitespace(f[1])
             c == IF Len(ws) >= 2 THEN Split(ws[2], {":"}) ELSE <<>>
         IN  IF Len(ws) < 2 \/ Len(c) < 3
             THEN [ok |-> FALSE, below2 |-> FALSE]
             ELSE ParseF32(c[3])

\* ------------------------------------------------------------------ OptFields

OptElemOf(field) ==
    LET p == Split(field, {":"})
    IN  IF Len(p) < 3 THEN [ok |-> FALSE, val |-> <<>>]
        ELSE [ok |-> TRUE, val |-> [tag |-> p[1], typee |-> p[2], value |-> p[3]]]

\* OptFields::parse over the fields left in the iterator: () stores
\* nothing and never fails; Vec<OptElem> needs tag:type:value in each.
OptFields_parse(optVec, fields) ==
    IF ~optVec THEN [ok |-> TRUE, val |-> <<>>]
    ELSE [ok |-> \A i \in 1..Len(fields) : OptElemOf(fields[i]).ok,
          val |-> [i \in 1..Len(fields) |-> OptElemOf(fields[i]).val]]

\* ------------------------------------------------------------------ Gfa

\* Gfa::new
Gfa_new ==
    [header |-> EmptyHeader, segments |-> <<>>, paths |-> <<>>, links |-> None,
     containments |-> <<>>, walk |-> <<>>, jumps |-> <<>>, edges |-> <<>>]

\* PathStep with a plausible slip: the node keeps the orientation
\* character.
PathStep_keeps_orientation(d) ==
    IF Len(d) = 0 THEN [ok |-> FALSE, dir |-> FALSE, node |-> <<>>]
    ELSE [ok |-> TRUE, dir |-> d[Len(d)] = "+", node |-> d]

\* One step "id+" / "id-" of a P line: the orientation is the last
\* character, the node its prefix; the empty step slices out of range.
PathStep(d) ==
    IF Len(d) = 0 THEN [ok |-> FALSE, dir |-> FALSE, node |-> <<>>]
    ELSE [ok |-> TRUE, dir |-> d[Len(d)] = "+", node |-> SubSeq(d, 1, Len(d) - 1)]

Panic(acc) == [acc EXCEPT !.panic = TRUE]

\* Gfa_S with a plausible slip: the sequence is sliced like a path step
\* and loses its last character.
Gfa_S_short_sequence(acc, f, below2, optVec) ==
    IF Len(f) < 3 THEN Panic(acc)
    ELSE LET sequence == SubSeq(f[3], 1, Len(f[3]) - 1)
             opt == OptFields_parse(optVec, Rest(f, IF below2 THEN 4 ELSE 5))
         IN  IF ~below2 /\ (Len(f) < 4 \/ ~ParseUInt(f[4]).ok) THEN Panic(acc)
             ELSE IF ~opt.ok THEN Panic(acc)
             ELSE [acc EXCEPT !.nodes = Append(@,
                      [name |-> f[2], sequence |-> sequence,
                       size |-> IF below2 THEN Len(sequence) ELSE ParseUInt(f[4]).val,
                       opt |-> opt.val])]

\* Gfa_S with a plausible slip: the version is not consulted, every
\* segment is decoded as a version 1 record.
Gfa_S_implicit_size(acc, f, below2, optVec) ==
    IF Len(f) < 3 THEN Panic(acc)
    ELSE LET opt == OptFields_parse(optVec, Rest(f, 4))
         IN  IF ~opt.ok THEN Panic(acc)
             ELSE [acc EXCEPT !.nodes = Append(@,
                      [name |-> f[2], sequence |-> f[3], size |-> Len(f[3]), opt |-> opt.val])]

\* The "S" arm of Gfa::parse_gfa_file.
Gfa_S(acc, f, below2, optVec) ==
    IF Len(f) < 3 THEN Panic(acc)
    ELSE IF below2
    THEN LET opt == OptFields_parse(optVec, Rest(f, 4))
         IN  IF ~opt.ok THEN Panic(acc)
             ELSE [acc EXCEPT !.nodes = Append(@,
                      [name |-> f[2], sequence |-> f[3], size |-> Len(f[3]), opt |-> opt.val])]
    ELSE IF Len(f) < 4 \/ ~ParseUInt(f[4]).ok THEN Panic(acc)
    ELSE LET opt == OptFields_parse(optVec, Rest(f, 5))
         IN  IF ~opt.ok THEN Panic(acc)
             ELSE [acc EXCEPT !.nodes = Append(@,
                      [name |-> f[2], sequence |-> f[3], size |-> ParseUInt(f[4]).val,
                       opt |-> opt.val])]

\* The "P" arm of Gfa::parse_gfa_file (line_split is the tab split).
Gfa_P(acc, f) ==
    IF Len(f) < 3 THEN Panic(acc)
    ELSE LET steps == Split(f[3], {","})
             n == Len(steps)
         IN  IF \E i \in 1..n : ~PathStep(steps[i]).ok THEN Panic(acc)
             ELSE [acc EXCEPT !.paths = Append(@,
                      [name |-> f[2],
                       dir |-> [i \in 1..n |-> PathStep(steps[i]).dir],
                       nodes |-> [i \in 1..n |-> PathStep(steps[i]).node],
                       overlap |-> IF Len(f) > 3 THEN Split(f[4], {","})
                                   ELSE [i \in 1..n |-> <<"*">>]])]

\* The "L" arm of Gfa::parse_gfa_file.
Gfa_L(acc, f, edges, optVec) ==
    IF ~edges THEN acc
    ELSE IF Len(f) < 6 THEN Panic(acc)
    ELSE LET opt == OptFields_parse(optVec, Rest(f, 7))
         IN  IF ~opt.ok THEN Panic(acc)
             ELSE [acc EXCEPT !.links = Append(@,
                      [from |-> f[2], from_dir |-> f[3] = <<"+">>, to |-> f[4],
                       to_dir |-> f[5] = <<"+">>, overlap |-> f[6], opt |-> opt.val])]

\* The "C" arm of Gfa::parse_gfa_file.
Gfa_C(acc, f, edges, optVec) ==
    IF ~edges THEN acc
    ELSE IF Len(f) < 6 THEN Panic(acc)
    ELSE LET opt == OptFields_parse(optVec, Rest(f, 7))
         IN  IF ~opt.ok THEN Panic(acc)
             ELSE [acc EXCEPT !.containments = Append(@,
                      [container |-> f[2], container_orient |-> f[3] = <<"+">>,
                       contained |-> f[4], contained_orient |-> f[5] = <<"+">>,
                       overlap |-> f[6], opt |-> opt.val, pos |-> 0])]

\* The "H" arm of both parsers: the header is replaced.
Parse_H(acc, l) ==
    LET h == Header_from_string(l)
    IN  IF ~h.ok THEN Panic(acc) ELSE [acc EXCEPT !.header = h.val]

\* The directions of a walk string as Gfa's "W" arm collects them: one
\* per '>' or '<', every other character ignored.
RECURSIVE WalkDirs(_)
WalkDirs(w) ==
    IF w = <<>> THEN <<>>
    ELSE (IF w[1] = ">" THEN <<TRUE>> ELSE IF w[1] = "<" THEN <<FALSE>> ELSE <<>>)
         \o WalkDirs(Rest(w, 2))

\* The "W" arm of Gfa::parse_gfa_file.
Gfa_W(acc, f) ==
    IF Len(f) < 7 THEN Panic(acc)
    ELSE IF ~ParseUInt(f[3]).ok \/ ~ParseUInt(f[5]).ok \/ ~ParseUInt(f[6]).ok THEN Panic(acc)
    ELSE IF Len(f[7]) = 0 THEN Panic(acc)
    ELSE [acc EXCEPT !.walk = Append(@,
             [sample_id |-> f[2], hap_index |-> ParseUInt(f[3]).val, seq_id |-> f[4],
              seq_start |-> ParseUInt(f[5]).val, seq_end |-> ParseUInt(f[6]).val,
              walk_segments |-> Split(Rest(f[7], 2), {"<", ">"}),
              walk_dir |-> WalkDirs(f[7])])]

\* The "J" arm of Gfa::parse_gfa_file.
Gfa_J(acc, f, optVec) ==
    IF Len(f) < 6 THEN Panic(acc)
    ELSE LET opt == OptFields_parse(optVec, Rest(f, 7))
         IN  IF ~opt.ok THEN Panic(acc)
             ELSE [acc EXCEPT !.jumps = Append(@,
                      [from |-> f[2], from_orient |-> f[3] = <<"+">>, to |-> f[4],
                       to_orient |-> f[5] = <<"+">>, distance |-> f[6], opt |-> opt.val])]

\* The bitwise and of two naturals (u8 `&`).
RECURSIVE BitAnd(_, _)
BitAnd(a, b) ==
    IF a = 0 \/ b = 0 THEN 0
    ELSE (a % 2) * (b % 2) + 2 * BitAnd(a \div 2, b \div 2)

\* str::ends_with('$') and str::replace('$', "")
ends_with_dollar(t) == Len(t) > 0 /\ t[Len(t)] = "$"

replace_dollar(t) == SelectSeq(t, LAMBDA c : c # "$")

\* The running `end` of the "E" arm after the position field t with the
\* bit b: `end & b` when the field ends with '$'.
EndAfter(end, t, b) == IF ends_with_dollar(t) THEN BitAnd(end, b) ELSE end

\* The "E" arm of Gfa::parse_gfa_file.
Gfa_E(acc, f, optVec) ==
    IF Len(f) < 9 THEN Panic(acc)
    ELSE IF ~ParseUInt(f[2]).ok \/ ~PathStep(f[3]).ok \/ ~PathStep(f[4]).ok THEN Panic(acc)
    ELSE IF \E k \in 5..8 : ~ParseUInt(replace_dollar(f[k])).ok THEN Panic(acc)
    ELSE LET opt == OptFields_parse(optVec, Rest(f, 10))
             end1 == EndAfter(0, f[5], 1)
             end2 == EndAfter(end1, f[6], 2)
             end3 == EndAfter(end2, f[7], 4)
             end4 == EndAfter(end3, f[8], 8)
         IN  IF ~opt.ok THEN Panic(acc)
             ELSE [acc EXCEPT !.edges = Append(@,
                      [id |-> ParseUInt(f[2]).val,
                       source_name |-> PathStep(f[3]).node, sink_name |-> PathStep(f[4]).node,
                       source_dir |-> PathStep(f[3]).dir, sink_dir |-> PathStep(f[4]).dir,
                       source_begin |-> ParseUInt(replace_dollar(f[5])).val,
                       source_end |-> ParseUInt(replace_dollar(f[6])).val,
                       sink_begin |-> ParseUInt(replace_dollar(f[7])).val,
                       sink_end |-> ParseUInt(replace_dollar(f[8])).val,
                       ends |-> end4, alignment |-> f[9], opts |-> opt.val])]

\* One iteration of the line loop of Gfa::parse_gfa_file: the match on
\* the first tab-separated field.
Gfa_line(acc, l, below2, edges, optVec) ==
    LET f == Split(l, {TAB})
        first == f[1]
    IN  CASE first = <<"S">> -> Gfa_S(acc, f, below2, optVec)
          [] first = <<"P">> -> Gfa_P(acc, f)
          [] first = <<"L">> -> Gfa_L(acc, f, edges, optVec)
          [] first = <<"C">> -> Gfa_C(acc, f, edges, optVec)
          [] first = <<"H">> -> Parse_H(acc, l)
          [] first = <<"W">> -> Gfa_W(acc, f)
          [] first = <<"J">> -> Gfa_J(acc, f, optVec)
          [] first = <<"E">> -> Gfa_E(acc, f, optVec)
          [] OTHER -> acc

\* The line loop of Gfa::parse_gfa_file; a panic ends it.
RECURSIVE Gfa_lines(_, _, _, _, _, _)
Gfa_lines(acc, f, i, below2, edges, optVec) ==
    IF i > Len(f) \/ acc.panic THEN acc
    ELSE Gfa_lines(Gfa_line(acc, f[i], below2, edges, optVec), f, i + 1, below2, edges, optVec)

NoFile == [exists |-> FALSE, lines |-> <<>>]

FileOf(ls) == [exists |-> TRUE, lines |-> ls]

\* Gfa_parse_gfa_file with a plausible slip: the collected segments are
\* moved into the graph in the else branch of `if edges`.
Gfa_parse_gfa_file_segments_else(self, fl, edges, optVec) ==
    IF ~fl.exists THEN [panic |-> FALSE, g |-> self]
    ELSE LET v == get_version(fl.lines)
         IN  IF ~v.ok THEN [panic |-> TRUE, g |-> self]
             ELSE LET acc0 == [panic |-> FALSE, nodes |-> <<>>, links |-> <<>>,
                               header |-> self.header, paths |-> self.paths,
                               containments |-> self.containments, walk |-> self.walk,
                               jumps |-> self.jumps, edges |-> self.edges]
                      acc == Gfa_lines(acc0, fl.lines, 1, v.below2, edges, optVec)
                      g1 == [header |-> acc.header, segments |-> self.segments,
                             paths |-> acc.paths, links |-> self.links,
                             containments |-> acc.containments, walk |-> acc.walk,
                             jumps |-> acc.jumps, edges |-> acc.edges]
                  IN  IF acc.panic THEN [panic |-> TRUE, g |-> g1]
                      ELSE [panic |-> FALSE,
                            g |-> IF edges THEN [g1 EXCEPT !.links = Some(acc.links)]
                                  ELSE [g1 EXCEPT !.segments = @ \o acc.nodes]]

\* Gfa::parse_gfa_file(self, file_name, edges): the graph after the call
\* and whether the call panicked.  A path that names no file leaves the
\* graph untouched and returns.
Gfa_parse_gfa_file(self, fl, edges, optVec) ==
    IF ~fl.exists THEN [panic |-> FALSE, g |-> self]
    ELSE LET v == get_version(fl.lines)
         IN  IF ~v.ok THEN [panic |-> TRUE, g |-> self]
             ELSE LET acc0 == [panic |-> FALSE, nodes |-> <<>>, links |-> <<>>,
                               header |-> self.header, paths |-> self.paths,
                               containments |-> self.containments, walk |-> self.walk,
                               jumps |-> self.jumps, edges |-> self.edges]
                      acc == Gfa_lines(acc0, fl.lines, 1, v.below2, edges, optVec)
                      g1 == [header |-> acc.header, segments |-> self.segments,
                             paths |-> acc.paths, links |-> self.links,
                             containments |-> acc.containments, walk |-> acc.walk,
                             jumps |-> acc.jumps, edges |-> acc.edges]
                  IN  IF acc.panic THEN [panic |-> TRUE, g |-> g1]
                      ELSE [panic |-> FALSE,
                            g |-> [g1 EXCEPT !.links = IF edges THEN Some(acc.links) ELSE @,
                                             !.segments = @ \o acc.nodes]]

\* ------------------------------------------------------------------ NCGfa

\* NCGfa::new
NCGfa_new ==
    [header |-> EmptyHeader, nodes |-> <<>>, paths |-> <<>>, edges |-> None,
     walk |-> <<>>, mapper |-> None]

\* read_this::<u32>: the scan of a walk string.  A direction is pushed at
\* every '>' / '<'; the id collected so far is pushed only when the next
\* '>' / '<' arrives; digits extend the id; any other character is
\* ignored.  st = [dirs, node_ids, current_id, is_id].
RECURSIVE read_this_loop(_, _, _)
read_this_loop(walk, i, st) ==
    IF i > Len(walk) THEN st
    ELSE LET c == walk[i]
             flushed == IF st.is_id
                        THEN [st EXCEPT !.node_ids = Append(@, DecVal(st.current_id)),
                                        !.current_id = <<>>, !.is_id = FALSE]
                        ELSE st
         IN  read_this_loop(walk, i + 1,
                CASE c = ">" -> [flushed EXCEPT !.dirs = Append(@, TRUE)]
                  [] c = "<" -> [flushed EXCEPT !.dirs = Append(@, FALSE)]
                  [] is_ascii_digit(c) -> [st EXCEPT !.current_id = Append(@, c), !.is_id = TRUE]
                  [] OTHER -> st)

read_this(walk) ==
    LET st == read_this_loop(walk, 1,
                 [dirs |-> <<>>, node_ids |-> <<>>, current_id |-> <<>>, is_id |-> FALSE])
    IN  [dirs |-> st.dirs, node_ids |-> st.node_ids]

\* The "S" arm of NCGfa::parse_gfa_file (fields of the tab split).
NC_S(acc, f, optVec) ==
    IF Len(f) < 3 \/ ~ParseUInt(f[2]).ok THEN Panic(acc)
    ELSE LET opt == OptFields_parse(optVec, Rest(f, 4))
         IN  IF ~opt.ok THEN Panic(acc)
             ELSE [acc EXCEPT !.nodes = Append(@,
                      [id |-> ParseUInt(f[2]).val, seq |-> f[3], opt |-> opt.val])]

\* The "P" arm of NCGfa::parse_gfa_file (ws is the whitespace split).
NC_P(acc, ws) ==
    IF Len(ws) < 3 THEN Panic(acc)
    ELSE LET steps == Split(ws[3], {","})
             n == Len(steps)
         IN  IF \E i \in 1..n : ~PathStep(steps[i]).ok \/ ~ParseUInt(PathStep(steps[i]).node).ok
             THEN Panic(acc)
             ELSE [acc EXCEPT !.paths = Append(@,
                      [name |-> ws[2],
                       dir |-> [i \in 1..n |-> PathStep(steps[i]).dir],
                       nodes |-> [i \in 1..n |-> ParseUInt(PathStep(steps[i]).node).val],
                       overlap |-> IF Len(ws) > 3 THEN Split(ws[4], {","})
                                   ELSE [i \in 1..n |-> <<"*">>]])]

\* The "L" and the "C" arm of NCGfa::parse_gfa_file: both push an NCEdge.
NC_L(acc, f, edge, optVec) ==
    IF ~edge THEN acc
    ELSE IF Len(f) < 6 \/ ~ParseUInt(f[2]).ok \/ ~ParseUInt(f[4]).ok THEN Panic(acc)
    ELSE LET opt == OptFields_parse(optVec, Rest(f, 7))
         IN  IF ~opt.ok THEN Panic(acc)
             ELSE [acc EXCEPT !.edges = Append(@,
                      [from |-> ParseUInt(f[2]).val, from_dir |-> f[3] = <<"+">>,
                       to |-> ParseUInt(f[4]).val, to_dir |-> f[5] = <<"+">>,
                       overlap |-> f[6], opt |-> opt.val])]

\* The "W" arm of NCGfa::parse_gfa_file.
NC_W(acc, f) ==
    IF Len(f) < 7 THEN Panic(acc)
    ELSE IF ~ParseUInt(f[3]).ok \/ ~ParseUInt(f[5]).ok \/ ~ParseUInt(f[6]).ok THEN Panic(acc)
    ELSE [acc EXCEPT !.walk = Append(@,
             [sample_id |-> f[2], hap_index |-> ParseUInt(f[3]).val, seq_id |-> f[4],
              seq_start |-> ParseUInt(f[5]).val, seq_end |-> ParseUInt(f[6]).val,
              walk_segments |-> read_this(f[7]).node_ids,
              walk_dir |-> read_this(f[7]).dirs])]

\* One iteration of the line loop of NCGfa::parse_gfa_file: the match on
\* line_split[0] of the whitespace split (a line without any field
\* indexes out of range).
NC_line(acc, l, edge, optVec) ==
    LET ws == split_whitespace(l)
        f == Split(l, {TAB})
    IN  IF Len(ws) = 0 THEN Panic(acc)
        ELSE CASE ws[1] = <<"S">> -> NC_S(acc, f, optVec)
               [] ws[1] = <<"P">> -> NC_P(acc, ws)
               [] ws[1] = <<"L">> -> NC_L(acc, f, edge, optVec)
               [] ws[1] = <<"C">> -> NC_L(acc, f, edge, optVec)
               [] ws[1] = <<"W">> -> NC_W(acc, f)
               [] ws[1] = <<"H">> -> Parse_H(acc, l)
               [] OTHER -> acc

RECURSIVE NC_lines(_, _, _, _, _)
NC_lines(acc, f, i, edge, optVec) ==
    IF i > Len(f) \/ acc.panic THEN acc
    ELSE NC_lines(NC_line(acc, f[i], edge, optVec), f, i + 1, edge, optVec)

\* a <= b for keys that are sequences of numbers, compared element by
\* element (a number is the key <<n>>; a text is the key of its bytes).
RECURSIVE KeyLeq(_, _)
KeyLeq(a, b) ==
    IF a = <<>> THEN TRUE
    ELSE IF b = <<>> THEN FALSE
    ELSE IF a[1] # b[1] THEN a[1] < b[1]
    ELSE KeyLeq(Rest(a, 2), Rest(b, 2))

\* Insertion of index j into the sorted index sequence p, after every
\* index whose key is not larger (so the sort is stable, as
\* slice::sort_by_key is).
RECURSIVE InsertIdx(_, _, _)
InsertIdx(p, j, keys) ==
    IF p = <<>> THEN <<j>>
    ELSE IF KeyLeq(keys[p[Len(p)]], keys[j]) THEN Append(p, j)
    ELSE Append(InsertIdx(SubSeq(p, 1, Len(p) - 1), j, keys), p[Len(p)])

RECURSIVE SortIdx(_, _)
SortIdx(n, keys) == IF n = 0 THEN <<>> ELSE InsertIdx(SortIdx(n - 1, keys), n, keys)

\* s sorted by keys (keys[i] is the key of s[i]), stably.
SortByKeys(s, keys) == LET p == SortIdx(Len(s), keys) IN [i \in 1..Len(s) |-> s[p[i]]]

\* nodes.sort_by_key(|a| a.id)
SortNodes(nodes) == SortByKeys(nodes, [i \in 1..Len(nodes) |-> <<nodes[i].id>>])

\* NCGfa::parse_gfa_file(self, file_name, edge).
NCGfa_parse_gfa_file(self, fl, edge, optVec) ==
    IF ~fl.exists THEN [panic |-> FALSE, g |-> self]
    ELSE LET acc0 == [panic |-> FALSE, nodes |-> <<>>, edges |-> <<>>,
                      header |-> self.header, paths |-> self.paths, walk |-> self.walk]
             acc == NC_lines(acc0, fl.lines, 1, edge, optVec)
             g1 == [self EXCEPT !.header = acc.header, !.paths = acc.paths, !.walk = acc.walk]
         IN  IF acc.panic THEN [panic |-> TRUE, g |-> g1]
             ELSE [panic |-> FALSE,
                   g |-> [g1 EXCEPT !.nodes = @ \o SortNodes(acc.nodes),
                                    !.edges = Some(acc.edges)]]

\* ------------------------------------------------------------------ helpers of the compactness check

\* The per-segment test of check_nc and vec_is_digit: does the text hold a
\* character that is no ASCII digit.
HasNonDigit(x) == \E i \in 1..Len(x) : ~is_ascii_digit(x[i])

\* vec_is_digit, and the is_digit of check_nc: the list of the per-text
\* "has a non-digit" flags contains false.
vec_is_digit(names) == \E i \in 1..Len(names) : ~HasNonDigit(names[i])

\* create_sort_numeric: every text parsed as usize (a failure panics),
\* then sorted.
create_sort_numeric(names) ==
    LET n == Len(names)
        nums == [i \in 1..n |-> ParseUInt(names[i]).val]
    IN  [ok |-> \A i \in 1..n : ParseUInt(names[i]).ok,
         val |-> SortByKeys(nums, [i \in 1..n |-> <<nums[i]>>])]

\* vec_is_compact: every window of two neighbours steps by one.
vec_is_compact(v) == \A i \in 1..(Len(v) - 1) : v[i + 1] = v[i] + 1

Min(v) == CHOOSE m \in {v[i] : i \in 1..Len(v)} : \A i \in 1..Len(v) : m <= v[i]

\* vec_check_start
vec_check_start(v) == Min(v) = 1

\* Gfa::check_nc: None without segments; otherwise, when is_digit, the
\* sorted numeric names are returned if their minimum is 1 (the result of
\* the window test, _f, is not used).
Gfa_check_nc(g) ==
    LET names == [i \in 1..Len(g.segments) |-> g.segments[i].name]
    IN  IF names = <<>> THEN [panic |-> FALSE, val |-> None]
        ELSE IF ~vec_is_digit(names) THEN [panic |-> FALSE, val |-> None]
        ELSE LET nn == create_sort_numeric(names)
             IN  IF ~nn.ok THEN [panic |-> TRUE, val |-> None]
                 ELSE IF Min(nn.val) = 1 THEN [panic |-> FALSE, val |-> Some(nn.val)]
                 ELSE [panic |-> FALSE, val |-> None]

\* ------------------------------------------------------------------ Gfa to NCGfa

\* The position (from 0, as enumerate counts) of the last segment with
\* the given name: a later HashMap::insert replaces an earlier one.
LastIndex(segments, name) ==
    CHOOSE i \in 0..(Len(segments) - 1) :
        /\ segments[i + 1].name = name
        /\ \A j \in (i + 1)..(Len(segments) - 1) : segments[j + 1].name # name

\* make_mapper with a plausible slip: the ids count from 0.
make_mapper_from_zero(g) ==
    [name \in {g.segments[i].name : i \in 1..Len(g.segments)} |-> LastIndex(g.segments, name)]

\* Gfa::make_mapper: name -> i + 1 for the segment at position i.
make_mapper(g) ==
    [name \in {g.segments[i].name : i \in 1..Len(g.segments)} |->
        LastIndex(g.segments, name) + 1]

\* mapper.get(key).unwrap() over a list of keys: does every key map.
AllMapped(mapper, keys) == \A i \in 1..Len(keys) : keys[i] \in DOMAIN mapper

\* The (value, key) pairs of the mapper sorted, keys only.
MapperNames(mapper) ==
    LET vals == {mapper[k] : k \in DOMAIN mapper}
        rank(k) == Cardinality({v \in vals : v <= mapper[k]})
    IN  [j \in 1..Cardinality(DOMAIN mapper) |-> CHOOSE k \in DOMAIN mapper : rank(k) = j]

\* Gfa::convert_with_mapper: nodes, edges (overlap emptied), paths and
\* walks with every name replaced through the mapper; a name the mapper
\* does not hold panics.
Gfa_convert_with_mapper(g, mapper) ==
    LET n == Len(g.segments)
        links == IF g.links.some THEN g.links.val ELSE <<>>
        ok == /\ \A i \in 1..Len(links) : AllMapped(mapper, <<links[i].from, links[i].to>>)
              /\ \A i \in 1..Len(g.paths) : AllMapped(mapper, g.paths[i].nodes)
              /\ \A i \in 1..Len(g.walk) : AllMapped(mapper, g.walk[i].walk_segments)
    IN  IF ~ok THEN [panic |-> TRUE, g |-> NCGfa_new]
        ELSE [panic |-> FALSE,
              g |-> [header |-> EmptyHeader,
                     nodes |-> SortNodes([i \in 1..n |->
                                  [id |-> mapper[g.segments[i].name],
                                   seq |-> g.segments[i].sequence,
                                   opt |-> g.segments[i].opt]]),
                     edges |-> IF g.links.some
                               THEN Some([i \in 1..Len(links) |->
                                        [from |-> mapper[links[i].from],
                                         from_dir |-> links[i].from_dir,
                                         to |-> mapper[links[i].to],
                                         to_dir |-> links[i].to_dir,
                                         overlap |-> <<>>, opt |-> links[i].opt]])
                               ELSE None,
                     paths |-> [i \in 1..Len(g.paths) |->
                                  [name |-> g.paths[i].name, dir |-> g.paths[i].dir,
                                   nodes |-> [j \in 1..Len(g.paths[i].nodes) |->
                                                 mapper[g.paths[i].nodes[j]]],
                                   overlap |-> g.paths[i].overlap]],
                     walk |-> [i \in 1..Len(g.walk) |->
                                  [g.walk[i] EXCEPT !.walk_segments =
                                      [j \in 1..Len(g.walk[i].walk_segments) |->
                                          mapper[g.walk[i].walk_segments[j]]]]],
                     mapper |-> Some(MapperNames(mapper))]]

\* Gfa::convert_to_ncgraph
Gfa_convert_to_ncgraph(g) == Gfa_convert_with_mapper(g, make_mapper(g))

\* ------------------------------------------------------------------ the mapper of an NCGfa

\* check_numeric with a plausible slip: position i is compared with the
\* text of i, not of i + 1.
NCGfa_check_numeric_from_zero(self) ==
    IF self.mapper.some
    THEN \A i \in 0..(Len(self.mapper.val) - 1) : to_string(i) = self.mapper.val[i + 1]
    ELSE FALSE

\* NCGfa::check_numeric: with a mapper, every entry at position i (from
\* 0) is the text of i + 1; without a mapper, false.
NCGfa_check_numeric(self) ==
    IF self.mapper.some
    THEN \A i \in 0..(Len(self.mapper.val) - 1) : to_string(i + 1) = self.mapper.val[i + 1]
    ELSE FALSE

\* NCGfa::remove_mapper
NCGfa_remove_mapper(self) ==
    IF NCGfa_check_numeric(self) THEN [self EXCEPT !.mapper = None] ELSE self

\* ------------------------------------------------------------------ NCGfa to text

LF == "\n"

Sign(d) == IF d THEN <<"+">> ELSE <<"-">>

\* Header::to_string1
Header_to_string1(h) == <<"H", TAB, "V", "N", ":", "Z", ":", TAB>> \o h.version_number \o <<LF>>

\* OptElem::to_string1
OptElem_to_string1(o) == o.tag \o <<TAB>> \o o.typee \o <<TAB>> \o o.value

\* The optional fields appended to a record line: nothing when there
\* are none, else the fields joined by tabs and a newline.
OptTail(opt) ==
    IF opt = <<>> THEN <<>>
    ELSE Join([i \in 1..Len(opt) |-> OptElem_to_string1(opt[i])], <<TAB>>) \o <<LF>>

\* NCNode::to_string1
NCNode_to_string1(n) ==
    <<"S", TAB>> \o to_string(n.id) \o <<TAB>> \o n.seq \o <<LF>> \o OptTail(n.opt)

\* NCEdge::to_string_link
NCEdge_to_string_link(e) ==
    <<"L", TAB>> \o to_string(e.from) \o <<TAB>> \o Sign(e.from_dir) \o <<TAB>>
    \o to_string(e.to) \o <<TAB>> \o Sign(e.to_dir) \o <<TAB>> \o e.overlap \o <<LF>>
    \o OptTail(e.opt)

\* NCPath::to_string: `Some(mapper).is_some()` holds for every mapper, so
\* every step is written through mapper.as_ref().unwrap()[node - 1]: a
\* step panics without a mapper and with a node the mapper does not hold.
NCPath_to_string(p, mapper) ==
    LET n == IF Len(p.nodes) < Len(p.dir) THEN Len(p.nodes) ELSE Len(p.dir)
        ok == n > 0 => /\ mapper.some
                       /\ \A i \in 1..n : p.nodes[i] \in 1..Len(mapper.val)
    IN  IF ~ok THEN [panic |-> TRUE, val |-> <<>>]
        ELSE [panic |-> FALSE,
              val |-> <<"P", TAB>> \o p.name \o <<TAB, TAB>>
                      \o Join([i \in 1..n |-> mapper.val[p.nodes[i]] \o Sign(p.dir[i])], <<",">>)
                      \o <<LF>>]

\* NCGfa::to_file(self, file_name, with_header): the text written; a
\* path that panics ends the call.
NCGfa_to_file(self, with_header) ==
    LET edges == IF self.edges.some THEN self.edges.val ELSE <<>>
        paths == [i \in 1..Len(self.paths) |-> NCPath_to_string(self.paths[i], self.mapper)]
    IN  [panic |-> \E i \in 1..Len(paths) : paths[i].panic,
         val |-> (IF with_header THEN Header_to_string1(self.header) ELSE <<>>)
                 \o Join([i \in 1..Len(self.nodes) |-> NCNode_to_string1(self.nodes[i])], <<>>)
                 \o Join([i \in 1..Len(edges) |-> NCEdge_to_string_link(edges[i])], <<>>)
                 \o Join([i \in 1..Len(paths) |-> paths[i].val], <<>>)]

\* ------------------------------------------------------------------ Pansn

\* str::split(&str) with a non-empty pattern: the parts between the
\* matches, found from the left and not overlapping.
RECURSIVE SplitStrAcc(_, _, _, _)
SplitStrAcc(s, del, i, cur) ==
    IF i > Len(s) THEN <<cur>>
    ELSE IF i + Len(del) - 1 <= Len(s) /\ SubSeq(s, i, i + Len(del) - 1) = del
         THEN <<cur>> \o SplitStrAcc(s, del, i + Len(del), <<>>)
         ELSE SplitStrAcc(s, del, i + 1, Append(cur, s[i]))

\* str::split(&str); the empty pattern matches before every character
\* and at the end: "", each character, "".
SplitStr(s, del) ==
    IF del = <<>> THEN << <<>> >> \o [i \in 1..Len(s) |-> <<s[i]>>] \o << <<>> >>
    ELSE SplitStrAcc(s, del, 1, <<>>)

\* Iterator::find over the names: the first position whose item has the
\* name, 0 for None.
FindName(items, name) ==
    IF \E k \in 1..Len(items) : items[k].name = name
    THEN CHOOSE k \in 1..Len(items) :
            /\ items[k].name = name
            /\ \A j \in 1..(k - 1) : items[j].name # name
    ELSE 0

\* The sample and the haplotype a path name stands for, with a plausible
\* slip: the haplotype is taken from the third part.
PansnKey_third_part(name_split) ==
    [genome |-> name_split[1], haplotype |-> name_split[3]]

\* The sample and the haplotype a path name stands for: name_split[0]
\* and name_split[1].
PansnKey(name_split) ==
    [genome |-> name_split[1], haplotype |-> name_split[2]]

\* The grouping of one path with a plausible slip: a path whose
\* haplotype exists already is not pushed.
Pansn_group_path_no_push(genomes, key, i) ==
    LET index1 == FindName(genomes, key.genome)
    IN  IF index1 # 0
        THEN LET index2 == FindName(genomes[index1].haplotypes, key.haplotype)
             IN  IF index2 # 0
                 THEN genomes
                 ELSE [genomes EXCEPT ![index1].haplotypes =
                          Append(@, [name |-> key.haplotype, paths |-> <<i>>])]
        ELSE Append(genomes, [name |-> key.genome,
                              haplotypes |-> <<[name |-> key.haplotype, paths |-> <<i>>]>>])

\* The grouping of one path (a reference, modelled by its position i in
\* the input): into the haplotype of its sample if both exist, into a
\* new haplotype of its sample, or into a new sample.
Pansn_group_path(genomes, key, i) ==
    LET index1 == FindName(genomes, key.genome)
    IN  IF index1 # 0
        THEN LET index2 == FindName(genomes[index1].haplotypes, key.haplotype)
             IN  IF index2 # 0
                 THEN [genomes EXCEPT ![index1].haplotypes[index2].paths = Append(@, i)]
                 ELSE [genomes EXCEPT ![index1].haplotypes =
                          Append(@, [name |-> key.haplotype, paths |-> <<i>>])]
        ELSE Append(genomes, [name |-> key.genome,
                              haplotypes |-> <<[name |-> key.haplotype, paths |-> <<i>>]>>])

\* Every path its own sample with one haplotype, both named as the path.
Pansn_single(paths) ==
    [i \in 1..Len(paths) |->
        [name |-> paths[i].name,
         haplotypes |-> <<[name |-> paths[i].name, paths |-> <<i>>]>>]]

\* The else branch of Pansn::from_graph: the loop over the paths; a name
\* with a single part pushes the path as its own sample and panics.
RECURSIVE Pansn_group(_, _, _, _)
Pansn_group(paths, del, i, genomes) ==
    IF i > Len(paths) THEN [panic |-> FALSE, genomes |-> genomes]
    ELSE LET name_split == SplitStr(paths[i].name, del)
         IN  IF Len(name_split) > 1
             THEN Pansn_group(paths, del, i + 1,
                              Pansn_group_path(genomes, PansnKey(name_split), i))
             ELSE [panic |-> TRUE,
                   genomes |-> Append(genomes,
                      [name |-> paths[i].name,
                       haplotypes |-> <<[name |-> paths[i].name, paths |-> <<i>>]>>])]

\* Whether every path name has exactly three parts.
PansnSpec(paths, del) ==
    \A i \in 1..Len(paths) : Len(SplitStr(paths[i].name, del)) = 3

\* Pansn::from_graph with a plausible slip: the delimiter " " is not
\* set apart.
Pansn_from_graph_no_space(paths, del) ==
    IF ~PansnSpec(paths, del)
    THEN [panic |-> FALSE, genomes |-> Pansn_single(paths)]
    ELSE Pansn_group(paths, del, 1, <<>>)

\* Pansn::from_graph(paths, del)
Pansn_from_graph(paths, del) ==
    IF del = <<SPACE>> \/ ~PansnSpec(paths, del)
    THEN [panic |-> FALSE, genomes |-> Pansn_single(paths)]
    ELSE Pansn_group(paths, del, 1, <<>>)

\* Pansn::get_haplo_path: per haplotype, sample name # haplotype name
\* and the paths.
Pansn_get_haplo_path(genomes) ==
    Join([x \in 1..Len(genomes) |->
            [y \in 1..Len(genomes[x].haplotypes) |->
                [name |-> genomes[x].name \o <<"#">> \o genomes[x].haplotypes[y].name,
                 paths |-> genomes[x].haplotypes[y].paths]]], <<>>)

\* Pansn::get_path_genome: per sample, its name and the paths of its
\* haplotypes in order.
Pansn_get_path_genome(genomes) ==
    [x \in 1..Len(genomes) |->
        [name |-> genomes[x].name,
         paths |-> Join([y \in 1..Len(genomes[x].haplotypes) |->
                            genomes[x].haplotypes[y].paths], <<>>)]]

\* Pansn::get_paths_direct: per path, its name and the path alone.
Pansn_get_paths_direct(genomes, paths) ==
    LET refs == Pansn_get_path_genome(genomes)
        all == Join([x \in 1..Len(refs) |-> refs[x].paths], <<>>)
    IN  [k \in 1..Len(all) |-> [name |-> paths[all[k]].name, paths |-> <<all[k]>>]]

\* ------------------------------------------------------------------ walks to paths

\* NCWalk::to_path
NCWalk_to_path(w, sep) ==
    [name |-> w.sample_id \o sep \o to_string(w.hap_index) \o sep \o w.seq_id \o <<"_">>
              \o to_string(w.seq_start) \o <<"_">> \o to_string(w.seq_end),
     dir |-> w.walk_dir, nodes |-> w.walk_segments, overlap |-> << <<"*">> >>]

\* NCGfa::convert_walks: one path per walk is appended; self.walk is left
\* as it is.
NCGfa_convert_walks(self, sep) ==
    [self EXCEPT !.paths = @ \o [i \in 1..Len(self.walk) |-> NCWalk_to_path(self.walk[i], sep)]]

\* ------------------------------------------------------------------ the finalized Graph (spec 3, 4.2-4.4)
\* The arena graph, its finalize step, its lookup index and the parallel
\* parse are described by the specification only; the record decoding of
\* a range is the line loop of Gfa::parse_gfa_file above.

\* Target chunk size, large-line threshold and hard maximum chunk size of
\* the Chunk Indexer, in bytes, scaled to the model's files.
TargetChunk == 6

LargeLine == 9

MaxChunkBytes == 7

\* Largest worker pool.
MaxThreads == 2

RECURSIVE Concat(_)
Concat(texts) == IF texts = <<>> THEN <<>> ELSE texts[1] \o Concat(Rest(texts, 2))

\* The SliceRefs of texts appended one after the other from offset base.
RECURSIVE Slices(_, _)
Slices(texts, base) ==
    IF texts = <<>> THEN <<>>
    ELSE <<[start |-> base, end |-> base + Len(texts[1])]>>
         \o Slices(Rest(texts, 2), base + Len(texts[1]))

\* SliceRef::get_string: buffer[start..end]
get_string(slice, arena) == SubSeq(arena, slice.start + 1, slice.end)

\* Identifier::parse for the two representations: u32 and owned text.
Identifier_parse(kind, t) ==
    IF kind = "u32" THEN [ok |-> ParseUInt(t).ok, val |-> ParseUInt(t).val]
    ELSE [ok |-> TRUE, val |-> t]

\* The total order of identifiers: numeric for u32, bytewise for text.
IdKey(kind, id) == IF kind = "u32" THEN <<id>> ELSE TextKey(id)

\* The partial Graph of the records decoded from a run of lines: the
\* sequences and overlaps go to the arena, the records keep SliceRefs.
PartialGraph(ls, below2, kind) ==
    LET acc0 == [panic |-> FALSE, nodes |-> <<>>, links |-> <<>>, header |-> EmptyHeader,
                 paths |-> <<>>, containments |-> <<>>, walk |-> <<>>, jumps |-> <<>>, edges |-> <<>>]
        acc == Gfa_lines(acc0, ls, 1, below2, TRUE, FALSE)
        n == Len(acc.nodes)
        seqs == [i \in 1..n |-> acc.nodes[i].sequence]
        ovls == [i \in 1..Len(acc.links) |-> acc.links[i].overlap]
        sref == Slices(seqs, 0)
        oref == Slices(ovls, Len(Concat(seqs)))
        idsOk == \A i \in 1..n : Identifier_parse(kind, acc.nodes[i].name).ok
    IN  [panic |-> acc.panic \/ ~idsOk,
         header |-> acc.header,
         arena |-> Concat(seqs) \o Concat(ovls),
         segments |-> [i \in 1..n |->
                          [id |-> Identifier_parse(kind, acc.nodes[i].name).val,
                           sequence |-> sref[i], length |-> acc.nodes[i].size]],
         links |-> [i \in 1..Len(acc.links) |->
                       [from |-> acc.links[i].from, to |-> acc.links[i].to,
                        overlap |-> oref[i]]],
         walk |-> acc.walk]

Rebase(slice, by) == [start |-> slice.start + by, end |-> slice.end + by]

\* Merge: the partial graphs in range order; every SliceRef of a partial
\* graph is re-based by the length of the arena merged so far, then its
\* arena and its records are appended.  The first non-empty header wins.
RECURSIVE Merge(_, _, _)
Merge(acc, partials, i) ==
    IF i > Len(partials) THEN acc
    ELSE LET p == partials[i]
             by == Len(acc.arena)
         IN  Merge([panic |-> acc.panic \/ p.panic,
                    header |-> IF acc.header = EmptyHeader THEN p.header ELSE acc.header,
                    arena |-> acc.arena \o p.arena,
                    segments |-> acc.segments \o
                        [k \in 1..Len(p.segments) |->
                            [p.segments[k] EXCEPT !.sequence = Rebase(@, by)]],
                    links |-> acc.links \o
                        [k \in 1..Len(p.links) |->
                            [p.links[k] EXCEPT !.overlap = Rebase(@, by)]],
                    walk |-> acc.walk \o p.walk],
                   partials, i + 1)

EmptyPartial ==
    [panic |-> FALSE, header |-> EmptyHeader, arena |-> <<>>, segments |-> <<>>,
     links |-> <<>>, walk |-> <<>>]

\* DenseIndex with a plausible slip: the slot is computed without
\* subtracting index_low.
RECURSIVE DenseIndex_no_low(_, _, _, _)
DenseIndex_no_low(array, segs, low, k) ==
    IF k > Len(segs) THEN array
    ELSE DenseIndex_no_low(
             IF segs[k].id + 1 \in DOMAIN array THEN [array EXCEPT ![segs[k].id + 1] = k]
             ELSE array,
             segs, low, k + 1)

\* The dense index: array[id - index_low] = position of the segment in
\* the sorted vector, for every segment in vector order; unused slots
\* keep the sentinel 0 (positions count from 1 here).
RECURSIVE DenseIndex(_, _, _, _)
DenseIndex(array, segs, low, k) ==
    IF k > Len(segs) THEN array
    ELSE DenseIndex([array EXCEPT ![segs[k].id - low + 1] = k], segs, low, k + 1)

\* Finalize: sort the segments by identifier, set is_digit from the
\* identifier representation, build the lookup index.
Finalize(p, kind) ==
    LET n == Len(p.segments)
        segs == SortByKeys(p.segments, [i \in 1..n |-> IdKey(kind, p.segments[i].id)])
        dense == kind = "u32" /\ n > 0
        low == IF dense THEN segs[1].id ELSE 0
        high == IF dense THEN segs[n].id ELSE 0
    IN  [header |-> p.header, arena |-> p.arena, segments |-> segs, links |-> p.links,
         walk |-> p.walk, is_digit |-> kind = "u32", index_low |-> low,
         index |-> IF dense THEN DenseIndex([i \in 1..(high - low + 1) |-> 0], segs, low, 1)
                   ELSE <<>>]

\* The binary search of the sparse strategy over the sorted vector:
\* positions lo..hi-1 are still candidates.
RECURSIVE BinarySearch(_, _, _, _)
BinarySearch(segs, key, lo, hi) ==
    IF lo >= hi THEN 0
    ELSE LET mid == lo + ((hi - lo) \div 2)
             k == TextKey(segs[mid].id)
         IN  IF k = key THEN mid
             ELSE IF KeyLeq(k, key) THEN BinarySearch(segs, key, mid + 1, hi)
             ELSE BinarySearch(segs, key, lo, mid)

\* get_segment_by_id: array indexing under the dense strategy, binary
\* search under the sparse one; the position found, 0 for none.
SegmentPosition(g, id) ==
    IF g.is_digit
    THEN IF id < g.index_low \/ id - g.index_low + 1 > Len(g.index) THEN 0
         ELSE g.index[id - g.index_low + 1]
    ELSE BinarySearch(g.segments, TextKey(id), 1, Len(g.segments) + 1)

get_segment_by_id(g, id) ==
    LET pos == SegmentPosition(g, id)
    IN  IF pos = 0 THEN [ok |-> FALSE, val |-> <<>>] ELSE [ok |-> TRUE, val |-> g.segments[pos]]

\* get_sequence_by_id
get_sequence_by_id(g, id) ==
    LET s == get_segment_by_id(g, id)
    IN  IF ~s.ok THEN [ok |-> FALSE, val |-> <<>>]
        ELSE [ok |-> TRUE, val |-> get_string(s.val.sequence, g.arena)]

\* The Chunk Indexer: one scan over the lines; a boundary is cut after
\* the current line when the line is large and the chunk has reached the
\* target size, or when the chunk has reached the hard maximum; the rest
\* of the file, if any, is the last chunk.  st = [offsets, pos, chunk].
RECURSIVE IndexScan(_, _, _)
IndexScan(ls, i, st) ==
    IF i > Len(ls)
    THEN IF st.chunk > 0 THEN Append(st.offsets, st.pos) ELSE st.offsets
    ELSE LET bytes == Len(ls[i]) + 1
             pos == st.pos + bytes
             chunk == st.chunk + bytes
             cut == (bytes > LargeLine /\ chunk >= TargetChunk) \/ chunk >= MaxChunkBytes
         IN  IndexScan(ls, i + 1,
                       IF cut THEN [offsets |-> Append(st.offsets, pos), pos |-> pos, chunk |-> 0]
                       ELSE [st EXCEPT !.pos = pos, !.chunk = chunk])

index_file(ls) == IndexScan(ls, 1, [offsets |-> <<0>>, pos |-> 0, chunk |-> 0])

\* The byte offset at which line i starts.
RECURSIVE LineStart(_, _)
LineStart(ls, i) == IF i = 1 THEN 0 ELSE LineStart(ls, i - 1) + Len(ls[i - 1]) + 1

\* The lines a worker decodes for the range start..end: the full lines
\* that begin at or after start and end at or before end (a line the seek
\* landed inside is dropped).
RangeLines(ls, start, end) ==
    LET idx == {i \in 1..Len(ls) :
                   LineStart(ls, i) >= start /\ LineStart(ls, i) + Len(ls[i]) + 1 <= end}
        sel == SelectSeq([i \in 1..Len(ls) |-> IF i \in idx THEN <<ls[i]>> ELSE <<>>],
                         LAMBDA x : x # <<>>)
    IN  [j \in 1..Len(sel) |-> sel[j][1]]

\* ------------------------------------------------------------------ input files

\* A record line: its fields joined by tabs.
Tabbed(fields) == Join(fields, <<TAB>>)

VN(v) == <<"V", "N", ":", "Z", ":">> \o v

H10 == Tabbed(<< <<"H">>, VN(<<"1", ".", "0">>) >>)

H20 == Tabbed(<< <<"H">>, VN(<<"2", ".", "0">>) >>)

OptLN == <<"L", "N", ":", "i", ":", "1">>

SLine(id, seq) == Tabbed(<< <<"S">>, id, seq >>)

WLine(sample, hap, walk) ==
    Tabbed(<< <<"W">>, sample, hap, <<"c">>, <<"0">>, <<"5">>, walk >>)

\* S lines: in and out of order, a repeated name, a gap, a non-numeric
\* name, an explicit length (GFA 2), an optional field, a missing field.
SegLines ==
    { SLine(<<"1">>, <<"A", "C">>),
      SLine(<<"2">>, <<"G">>),
      SLine(<<"3">>, <<"T", "T">>),
      SLine(<<"1">>, <<"T">>),
      SLine(<<"x">>, <<"A">>),
      Tabbed(<< <<"S">>, <<"2">>, <<"G">>, <<"7">>, OptLN >>),
      Tabbed(<< <<"S">>, <<"3">>, <<"T">>, OptLN >>),
      Tabbed(<< <<"S">>, <<"1">> >>),
      Tabbed(<< <<"L">>, <<"1">>, <<"+">>, <<"2">>, <<"-">>, <<"0", "M">> >>) }

\* W and P lines: walks of two and of one node, a walk string with a
\* non-numeric id, a non-numeric haplotype, paths with and without the
\* overlap column, a path over a non-numeric node.
WalkLines ==
    { SLine(<<"1">>, <<"A", "C">>),
      SLine(<<"2">>, <<"G">>),
      WLine(<<"s">>, <<"0">>, <<">", "1", "<", "2">>),
      WLine(<<"t">>, <<"1">>, <<">", "2">>),
      WLine(<<"s">>, <<"0">>, <<">", "1", ">", "x", ">", "2">>),
      WLine(<<"s">>, <<"x">>, <<">", "1">>),
      Tabbed(<< <<"P">>, <<"p">>, <<"1", "+", ",", "2", "-">>, <<"*", ",", "*">> >>),
      Tabbed(<< <<"P">>, <<"q">>, <<"2", "+">> >>),
      Tabbed(<< <<"P">>, <<"p">>, <<"x", "+">> >>) }

\* A record line whose fields are separated by single spaces.
Spaced(fields) == Join(fields, <<SPACE>>)

\* C, J and L lines with good and bad orientations, a blank line, a line
\* with an unknown tag, a further H line.
RecordLines ==
    { SLine(<<"1">>, <<"A", "C">>),
      Tabbed(<< <<"C">>, <<"1">>, <<"+">>, <<"2">>, <<"-">>, <<"3">>, <<"4", "M">> >>),
      Tabbed(<< <<"J">>, <<"1">>, <<"+">>, <<"2">>, <<"-">>, <<"*">> >>),
      Tabbed(<< <<"J">>, <<"1">>, <<"-">>, <<"2">>, <<"+">>, <<"5">> >>),
      Tabbed(<< <<"L">>, <<"1">>, <<"+">>, <<"2">>, <<"-">>, <<"0", "M">> >>),
      Tabbed(<< <<"L">>, <<"1">>, <<"x">>, <<"2">>, <<"+">>, <<"0", "M">> >>),
      Tabbed(<< <<"L">>, <<"1">>, <<"+">>, <<"1">>, <<"-">>, <<"0", "M">> >>),
      <<>>,
      Tabbed(<< <<"X">>, <<"y">> >>),
      H20 }

\* The same records with tabs and with spaces between the fields.
SpaceLines ==
    { SLine(<<"1">>, <<"A", "C">>),
      Spaced(<< <<"S">>, <<"1">>, <<"A", "C">> >>),
      Spaced(<< <<"L">>, <<"1">>, <<"+">>, <<"2">>, <<"-">>, <<"0", "M">> >>),
      Tabbed(<< <<"P">>, <<"p">>, <<"1", "+", ",", "2", "-">> >>),
      Spaced(<< <<"P">>, <<"p">>, <<"1", "+", ",", "2", "-">> >>),
      Spaced(<< <<"W">>, <<"s">>, <<"0">>, <<"c">>, <<"0">>, <<"5">>, <<">", "1", "<", "2">> >>) }

ELine(id, b1, e1, b2, e2) ==
    Tabbed(<< <<"E">>, id, <<"1", "+">>, <<"2", "-">>, b1, e1, b2, e2, <<"*">> >>)

\* E lines: no position at the end of its segment, the source end and
\* the sink end, all four, a line that lacks the alignment.
EdgeLines ==
    { ELine(<<"1">>, <<"0">>, <<"1">>, <<"0">>, <<"1">>),
      ELine(<<"2">>, <<"0">>, <<"2", "$">>, <<"1">>, <<"3", "$">>),
      ELine(<<"3">>, <<"4", "$">>, <<"4", "$">>, <<"1", "$">>, <<"1", "$">>),
      Tabbed(<< <<"E">>, <<"4">>, <<"1", "+">>, <<"2", "-">>, <<"0">>, <<"1">>, <<"0">>, <<"1">> >>) }

\* The sequences over S of length at most n.
RECURSIVE BSeq(_, _)
BSeq(S, n) ==
    IF n = 0 THEN {<<>>}
    ELSE LET shorter == BSeq(S, n - 1)
         IN  shorter \cup {Append(b, x) : b \in {c \in shorter : Len(c) = n - 1}, x \in S}

\* The first line of a file: a version 1.0 header, a version 2.0 header,
\* or none (the records start at once).
Heads == {<<H10>>, <<H20>>, <<>>}

FilesOver(lines) == {FileOf(h \o b) : h \in Heads, b \in BSeq(lines, MaxBody)}

Files ==
    {NoFile} \cup FilesOver(SegLines) \cup FilesOver(WalkLines)
             \cup FilesOver(RecordLines) \cup FilesOver(SpaceLines) \cup FilesOver(EdgeLines)

\* A P line with one step.
PLine(name) == Tabbed(<< <<"P">>, name, <<"1", "+">> >>)

\* Path names: PanSN names of two samples, of two haplotypes of one
\* sample and of two contigs of one haplotype, a name without
\* delimiter, and a name with spaces.
PathNames ==
    { <<"a", "#", "1", "#", "c">>,
      <<"a", "#", "1", "#", "d">>,
      <<"a", "#", "2", "#", "c">>,
      <<"b", "#", "1", "#", "c">>,
      <<"x">>,
      <<"a", " ", "1", " ", "c">> }

\* Delimiters: the PanSN one, the space, the empty text, two characters.
Dels == { <<"#">>, <<SPACE>>, <<>>, <<"#", "1">> }

\* Files of P lines whose paths are grouped.
PansnFiles == {FileOf(<<H10>> \o b) : b \in BSeq({PLine(n) : n \in PathNames}, MaxPaths)}

\* The records of the files parsed in parallel: segments in and out of
\* order, with a gap, a repeated and a non-numeric name, a link, a walk.
GraphLines ==
    { SLine(<<"1">>, <<"A", "C">>),
      SLine(<<"2">>, <<"G">>),
      SLine(<<"3">>, <<"T", "T">>),
      SLine(<<"1">>, <<"T">>),
      SLine(<<"x">>, <<"A">>),
      Tabbed(<< <<"L">>, <<"1">>, <<"+">>, <<"2">>, <<"-">>, <<"0", "M">> >>),
      WLine(<<"s">>, <<"0">>, <<">", "1", "<", "2">>) }

GraphFiles == {NoFile} \cup {FileOf(<<H10>> \o b) : b \in BSeq(GraphLines, MaxBody)}

IdKinds == {"u32", "text"}

\* The separators convert_walks is called with.
Seps == {<<"#">>}

\* ------------------------------------------------------------------ the program

NoCall == [op |-> "none", edges |-> FALSE, optVec |-> FALSE, n |-> 0]

NoRes == [panic |-> FALSE, val |-> None]

NoPar == [offsets |-> <<>>, status |-> <<>>, partial |-> <<>>, threads |-> 0, kind |-> "none"]

NoGraph == [header |-> EmptyHeader, arena |-> <<>>, segments |-> <<>>, links |-> <<>>,
            walk |-> <<>>, is_digit |-> FALSE, index_low |-> 0, index |-> <<>>]

InitWith(F) ==
    /\ file \in F
    /\ pc = "new"
    /\ call = NoCall
    /\ gfa = Gfa_new
    /\ nc = NCGfa_new
    /\ res = NoRes
    /\ par = NoPar
    /\ graph = NoGraph

Init == InitWith(Files)

\* graph.parse_gfa_file(file, edges) on a new Gfa<T>, T = () or Vec<OptElem>.
GfaParse ==
    /\ pc = "new"
    /\ \E edges \in BOOLEAN, optVec \in BOOLEAN :
          LET r == Gfa_parse_gfa_file(gfa, file, edges, optVec)
          IN  /\ gfa' = r.g
              /\ pc' = IF r.panic THEN "panic" ELSE "gfa"
              /\ call' = [op |-> "Gfa::parse_gfa_file", edges |-> edges, optVec |-> optVec, n |-> 0]
    /\ UNCHANGED <<file, nc, res, par, graph>>

\* graph.parse_gfa_file(file, edge) on a new NCGfa<T>.
NCParse ==
    /\ pc = "new"
    /\ \E edges \in BOOLEAN, optVec \in BOOLEAN :
          LET r == NCGfa_parse_gfa_file(nc, file, edges, optVec)
          IN  /\ nc' = r.g
              /\ pc' = IF r.panic THEN "panic" ELSE "nc"
              /\ call' = [op |-> "NCGfa::parse_gfa_file", edges |-> edges, optVec |-> optVec, n |-> 0]
    /\ UNCHANGED <<file, gfa, res, par, graph>>

\* graph.check_nc() on the parsed Gfa.
CheckNc ==
    /\ pc = "gfa"
    /\ LET r == Gfa_check_nc(gfa)
       IN  /\ res' = r
           /\ pc' = IF r.panic THEN "panic" ELSE "checked"
    /\ UNCHANGED <<file, call, gfa, nc, par, graph>>

\* graph.convert_walks(sep) on the parsed NCGfa.
ConvertWalks ==
    /\ pc \in {"nc", "converted"}
    /\ call.n < MaxConvert
    /\ \E sep \in Seps : nc' = NCGfa_convert_walks(nc, sep)
    /\ pc' = "converted"
    /\ call' = [call EXCEPT !.n = @ + 1]
    /\ UNCHANGED <<file, gfa, res, par, graph>>

\* vec_is_digit over the names of the parsed segments.
VecIsDigit ==
    /\ pc = "gfa"
    /\ res' = [panic |-> FALSE,
               val |-> vec_is_digit([i \in 1..Len(gfa.segments) |-> gfa.segments[i].name])]
    /\ pc' = "digit"
    /\ UNCHANGED <<file, call, gfa, nc, par, graph>>

\* graph.convert_to_ncgraph() on the parsed Gfa.
ConvertToNc ==
    /\ pc = "gfa"
    /\ UNCHANGED <<file, call, gfa, par, graph>>
    /\ LET r == Gfa_convert_to_ncgraph(gfa)
       IN  /\ pc' = IF r.panic THEN "panic" ELSE "ncgraph"
           /\ nc' = r.g
           /\ res' = [panic |-> r.panic, val |-> None]

\* graph.parse_gfa_file(file, edge) once more on the parsed NCGfa; call.n
\* counts the further calls.
NCParseAgain ==
    /\ pc \in {"nc", "nc2"}
    /\ call.n < MaxParse
    /\ LET r == NCGfa_parse_gfa_file(nc, file, call.edges, call.optVec)
       IN  /\ nc' = r.g
           /\ pc' = IF r.panic THEN "panic" ELSE "nc2"
    /\ call' = [call EXCEPT !.n = @ + 1]
    /\ UNCHANGED <<file, gfa, res, par, graph>>

\* graph.remove_mapper() on an NCGfa, parsed or converted; call.n counts
\* the calls.
RemoveMapper ==
    /\ pc \in {"nc", "ncgraph", "removed"}
    /\ call.n < MaxRemove
    /\ pc' = "removed"
    /\ call' = [call EXCEPT !.n = @ + 1]
    /\ nc' = NCGfa_remove_mapper(nc)
    /\ UNCHANGED <<file, gfa, res, par, graph>>

\* graph.to_file(file_name, with_header) on an NCGfa; the graph is
\* consumed.
NCToFile ==
    /\ pc \in {"nc", "ncgraph", "removed"}
    /\ UNCHANGED <<file, call, gfa, nc, par, graph>>
    /\ \E with_header \in BOOLEAN :
          LET r == NCGfa_to_file(nc, with_header)
          IN  /\ pc' = IF r.panic THEN "panic" ELSE "written"
              /\ res' = r

Next ==
    \/ GfaParse \/ NCParse \/ CheckNc \/ ConvertWalks \/ VecIsDigit \/ ConvertToNc
    \/ NCParseAgain \/ RemoveMapper \/ NCToFile

Spec == Init /\ [][Next]_vars

\* ------------------------------------------------------------------ the parallel parse (spec 4.3, 5)

InitGraph == InitWith(GraphFiles)

\* Gfa::parse_gfa_file_multi(file, threads), up to the end of the Chunk
\* Indexer: the version is read, the ranges are cut, no worker runs yet.
MultiIndex ==
    /\ pc = "new"
    /\ \E threads \in 1..MaxThreads, kind \in IdKinds :
          IF ~file.exists \/ ~get_version(file.lines).ok
          THEN /\ pc' = "panic"
               /\ par' = [NoPar EXCEPT !.threads = threads, !.kind = kind]
          ELSE LET offsets == index_file(file.lines)
                   n == Len(offsets) - 1
               IN  /\ pc' = "indexed"
                   /\ par' = [offsets |-> offsets, status |-> [i \in 1..n |-> "todo"],
                              partial |-> [i \in 1..n |-> EmptyPartial],
                              threads |-> threads, kind |-> kind]
    /\ call' = [NoCall EXCEPT !.op = "Gfa::parse_gfa_file_multi", !.edges = TRUE]
    /\ UNCHANGED <<file, gfa, nc, res, graph>>

Running == {i \in 1..Len(par.status) : par.status[i] = "run"}

\* A free worker of the pool takes a range that no worker has taken.
WorkerStart ==
    /\ pc = "indexed"
    /\ Cardinality(Running) < par.threads
    /\ \E i \in 1..Len(par.status) :
          /\ par.status[i] = "todo"
          /\ par' = [par EXCEPT !.status[i] = "run"]
    /\ UNCHANGED <<file, pc, call, gfa, nc, res, graph>>

\* A worker returns the partial Graph of its range.
WorkerFinish ==
    /\ pc = "indexed"
    /\ \E i \in 1..Len(par.status) :
          /\ par.status[i] = "run"
          /\ par' = [par EXCEPT
                        !.status[i] = "done",
                        !.partial[i] = PartialGraph(
                            RangeLines(file.lines, par.offsets[i], par.offsets[i + 1]),
                            get_version(file.lines).below2, par.kind)]
    /\ UNCHANGED <<file, pc, call, gfa, nc, res, graph>>

\* After the join: merge in range order, then finalize; a worker that
\* failed fails the call.
MultiMerge ==
    /\ pc = "indexed"
    /\ \A i \in 1..Len(par.status) : par.status[i] = "done"
    /\ LET m == Merge(EmptyPartial, par.partial, 1)
       IN  IF m.panic THEN pc' = "panic" /\ graph' = graph
           ELSE pc' = "final" /\ graph' = Finalize(m, par.kind)
    /\ UNCHANGED <<file, call, gfa, nc, res, par>>

\* graph.get_segment_by_id(id) for an identifier of the graph.
GetSegment ==
    /\ pc = "final"
    /\ \E k \in 1..Len(graph.segments) :
          LET r == get_segment_by_id(graph, graph.segments[k].id)
          IN  res' = [panic |-> ~r.ok, val |-> r.val, id |-> graph.segments[k].id]
    /\ pc' = "looked"
    /\ UNCHANGED <<file, call, gfa, nc, par, graph>>

NextGraph == MultiIndex \/ WorkerStart \/ WorkerFinish \/ MultiMerge \/ GetSegment

SpecGraph == InitGraph /\ [][NextGraph]_vars

\* ------------------------------------------------------------------ grouping the paths of a parsed Gfa

InitPansn == InitWith(PansnFiles)

\* Pansn::from_graph(&graph.paths, del) on the parsed Gfa.
FromGraph ==
    /\ pc = "gfa"
    /\ \E del \in Dels :
          LET r == Pansn_from_graph(gfa.paths, del)
          IN  /\ pc' = IF r.panic THEN "panic" ELSE "pansn"
              /\ call' = [op |-> "Pansn::from_graph", del |-> del, get |-> "none"]
              /\ res' = [panic |-> r.panic, val |-> r.genomes, out |-> <<>>]
    /\ UNCHANGED <<file, gfa, nc, par, graph>>

\* A getter of the Pansn: its result is kept in res.out.
Get(name, out) ==
    /\ pc = "pansn"
    /\ pc' = "got"
    /\ call' = [call EXCEPT !.get = name]
    /\ res' = [res EXCEPT !.out = out]
    /\ UNCHANGED <<file, gfa, nc, par, graph>>

GetHaploPath == Get("get_haplo_path", Pansn_get_haplo_path(res.val))

GetPathGenome == Get("get_path_genome", Pansn_get_path_genome(res.val))

GetPathsDirect == Get("get_paths_direct", Pansn_get_paths_direct(res.val, gfa.paths))

NextPansn == GfaParse \/ FromGraph \/ GetHaploPath \/ GetPathGenome \/ GetPathsDirect

SpecPansn == InitPansn /\ [][NextPansn]_vars

\* ------------------------------------------------------------------ what the claims speak about

\* The fields of a record line.
Fields(l) == Split(l, {TAB})

\* The lines of the input file that carry the given tag, in file order.
LinesTagged(tag) == SelectSeq(file.lines, LAMBDA l : Fields(l)[1] = <<tag>>)

GfaParsed == call.op = "Gfa::parse_gfa_file" /\ pc \in {"gfa", "checked", "digit", "ncgraph"}

NCParsed == call.op = "NCGfa::parse_gfa_file" /\ pc \in {"nc", "converted"}

\* How many S lines of the file carry the identifier of line l.
SameName(l) == Len(SelectSeq(LinesTagged("S"), LAMBDA m : Fields(m)[2] = Fields(l)[2]))

SameId(l) ==
    Len(SelectSeq(LinesTagged("S"),
                  LAMBDA m : ParseUInt(Fields(m)[2]).val = ParseUInt(Fields(l)[2]).val))

\* C1: round trip.  After a sequential parse of a file into a new graph,
\* every S line of the file has a segment with the line's identifier whose
\* sequence is the text of the line's sequence field, character by
\* character; when the identifier is on one S line only, every segment
\* found under that identifier carries exactly that text.  For Gfa and
\* for NCGfa.
C1_RoundTrip ==
    /\ GfaParsed /\ file.exists =>
          LET sl == LinesTagged("S")
          IN  /\ Len(gfa.segments) = Len(sl)
              /\ \A i \in 1..Len(sl) :
                    /\ \E k \in 1..Len(gfa.segments) :
                          /\ gfa.segments[k].name = Fields(sl[i])[2]
                          /\ gfa.segments[k].sequence = Fields(sl[i])[3]
                    /\ SameName(sl[i]) = 1 =>
                          \A k \in 1..Len(gfa.segments) :
                             gfa.segments[k].name = Fields(sl[i])[2]
                                => gfa.segments[k].sequence = Fields(sl[i])[3]
    /\ NCParsed /\ file.exists =>
          LET sl == LinesTagged("S")
          IN  /\ Len(nc.nodes) = Len(sl)
              /\ \A i \in 1..Len(sl) :
                    /\ \E k \in 1..Len(nc.nodes) :
                          /\ nc.nodes[k].id = ParseUInt(Fields(sl[i])[2]).val
                          /\ nc.nodes[k].seq = Fields(sl[i])[3]
                    /\ SameId(sl[i]) = 1 =>
                          \A k \in 1..Len(nc.nodes) :
                             nc.nodes[k].id = ParseUInt(Fields(sl[i])[2]).val
                                => nc.nodes[k].seq = Fields(sl[i])[3]

\* Both parsers have read a file with two S lines, the two-character
\* sequence of segment 1 second in the file.
C1_Witness ==
    /\ file.exists /\ Len(LinesTagged("S")) = 2
    /\ Len(Fields(LinesTagged("S")[2])) = 3
    /\ Fields(LinesTagged("S")[2])[3] = <<"A", "C">>
    /\ \/ GfaParsed /\ Len(gfa.segments) = 2 /\ gfa.segments[2].sequence = <<"A", "C">>
       \/ NCParsed /\ Len(nc.nodes) = 2 /\ nc.nodes[1].seq = <<"A", "C">>

Ascending(keys) == \A i \in 1..(Len(keys) - 1) : KeyLeq(keys[i], keys[i + 1])

\* C4: after a parse into an empty graph the segment vector is sorted
\* ascending by identifier: Gfa.segments by name, NCGfa.nodes by id.
C4_SortedAfterParse ==
    /\ GfaParsed => Ascending([i \in 1..Len(gfa.segments) |-> TextKey(gfa.segments[i].name)])
    /\ NCParsed => Ascending([i \in 1..Len(nc.nodes) |-> <<nc.nodes[i].id>>])

\* The segment names are numeric and, as a set, exactly 1..n for the n
\* segments.
CompactNames(g) ==
    LET n == Len(g.segments)
    IN  /\ n > 0
        /\ \A i \in 1..n : g.segments[i].name # <<>> /\ AllDigits(g.segments[i].name)
        /\ {DecVal(g.segments[i].name) : i \in 1..n} = 1..n

\* C5: check_nc returns Some exactly for the graphs whose identifiers are
\* 1..n; a gap, a minimum other than 1, a non-numeric name or no segment
\* gives None.
C5_CompactIff == pc = "checked" => (res.val.some <=> CompactNames(gfa))

\* C6: a parse of a path that names no file does not return normally.
C6_MissingFileFails ==
    call.op \in {"Gfa::parse_gfa_file", "NCGfa::parse_gfa_file"} /\ ~file.exists => pc = "panic"

\* The ids of a walk string, as texts: what stands between the '<' / '>'.
WalkIdTexts(w) == Split(Rest(w, 2), {"<", ">"})

\* A walk string of the form ((<|>)id)+ with numeric ids.
WellFormedWalk(w) ==
    /\ Len(w) > 0 /\ w[1] \in {"<", ">"}
    /\ \A i \in 1..Len(WalkIdTexts(w)) : WalkIdTexts(w)[i] # <<>> /\ AllDigits(WalkIdTexts(w)[i])

Numeric(t) == t # <<>> /\ AllDigits(t)

\* A line NCGfa cannot take as it stands: an S, P or W record that lacks a
\* required field or has a non-numeric text where a number is required.
MalformedForNC(l) ==
    LET f == Fields(l)
    IN  \/ f[1] = <<"S">> /\ (Len(f) < 3 \/ ~Numeric(f[2]))
        \/ f[1] = <<"P">> /\ (Len(f) < 3 \/
                               \E d \in {Split(f[3], {","})[i] : i \in 1..Len(Split(f[3], {","}))} :
                                   Len(d) < 2 \/ ~Numeric(SubSeq(d, 1, Len(d) - 1)))
        \/ f[1] = <<"W">> /\ (Len(f) < 7 \/ ~Numeric(f[3]) \/ ~Numeric(f[5]) \/ ~Numeric(f[6])
                               \/ ~WellFormedWalk(f[7]))

\* C7: a malformed record makes the whole parse fail: no parse that
\* returned has read a file with such a line.
C7_MalformedIsFatal ==
    NCParsed /\ file.exists => \A i \in 1..Len(file.lines) : ~MalformedForNC(file.lines[i])

\* C8: below version 2.0 the size of a segment is the length of its
\* sequence field and its optional fields are the fields after the
\* sequence; from 2.0 on the size is the number in the field after the
\* sequence and the optional fields are the fields after that one.
C8_SizeByVersion ==
    GfaParsed /\ file.exists =>
       LET sl == LinesTagged("S")
           first == IF file.lines[1] = H10 THEN 4 ELSE 5
       IN  \A k \in 1..Len(gfa.segments) :
              /\ file.lines[1] = H10 => gfa.segments[k].size = Len(Fields(sl[k])[3])
              /\ file.lines[1] = H20 =>
                    /\ Len(Fields(sl[k])) >= 4
                    /\ gfa.segments[k].size = DecVal(Fields(sl[k])[4])
              /\ call.optVec =>
                    /\ Len(gfa.segments[k].opt) = Len(Fields(sl[k])) - first + 1
                    /\ \A j \in 1..Len(gfa.segments[k].opt) :
                          gfa.segments[k].opt[j].tag = Split(Fields(sl[k])[first + j - 1], {":"})[1]

\* A version 2.0 file was parsed into a segment with an explicit length
\* that differs from its sequence's length, and an optional field.
C8_Witness ==
    /\ GfaParsed /\ file.exists /\ file.lines[1] = H20 /\ call.optVec
    /\ \E k \in 1..Len(gfa.segments) :
          /\ gfa.segments[k].size = 7 /\ Len(gfa.segments[k].sequence) = 1
          /\ Len(gfa.segments[k].opt) = 1

\* C9: the walk of a W line with a well-formed walk string of k steps has
\* k segments and k orientations, the i-th segment the i-th id, the i-th
\* orientation true iff the id follows '>'.
C9_WalkComplete ==
    /\ GfaParsed /\ file.exists =>
          LET wl == LinesTagged("W")
          IN  \A j \in 1..Len(wl) :
                 LET w == Fields(wl[j])[7]
                 IN  WellFormedWalk(w) =>
                        /\ gfa.walk[j].walk_segments = WalkIdTexts(w)
                        /\ gfa.walk[j].walk_dir = WalkDirs(w)
    /\ NCParsed /\ file.exists =>
          LET wl == LinesTagged("W")
          IN  \A j \in 1..Len(wl) :
                 LET w == Fields(wl[j])[7]
                 IN  WellFormedWalk(w) =>
                        /\ nc.walk[j].walk_segments
                              = [i \in 1..Len(WalkIdTexts(w)) |-> DecVal(WalkIdTexts(w)[i])]
                        /\ nc.walk[j].walk_dir = WalkDirs(w)

\* C10: convert_walks empties the walks and appends one path per former
\* walk, with the walk's node ids and orientations, after the paths that
\* were there.
C10_ConvertWalks ==
    [][ConvertWalks =>
          /\ nc'.walk = <<>>
          /\ Len(nc'.paths) = Len(nc.paths) + Len(nc.walk)
          /\ SubSeq(nc'.paths, 1, Len(nc.paths)) = nc.paths
          /\ \A i \in 1..Len(nc.walk) :
                /\ nc'.paths[Len(nc.paths) + i].nodes = nc.walk[i].walk_segments
                /\ nc'.paths[Len(nc.paths) + i].dir = nc.walk[i].walk_dir]_vars

\* What the sequential parser of the source makes of the file, with the
\* links kept and no optional fields (the parallel path's settings).
Sequential == Gfa_parse_gfa_file(Gfa_new, file, TRUE, FALSE)

\* The identifier of a sequentially parsed segment in the representation
\* of the parallel graph.
SeqId(seg) == Identifier_parse(par.kind, seg.name).val

\* The first position of ids that holds id (a linear scan).
LinearScan(ids, id) == CHOOSE k \in 1..Len(ids) : ids[k] = id /\ \A j \in 1..(k - 1) : ids[j] # id

Count(ids, id) == Cardinality({k \in 1..Len(ids) : ids[k] = id})

NCFields(l) == split_whitespace(l)

NCLinesTagged(tag) ==
    SelectSeq(file.lines, LAMBDA l : NCFields(l) # <<>> /\ NCFields(l)[1] = <<tag>>)

\* The path p is the one the P record with the fields f describes; the
\* node ids are numbers when numeric, texts otherwise.
PathOfRecord(p, f, numeric) ==
    /\ Len(f) >= 3
    /\ LET st == Split(f[3], {","})
       IN  /\ Len(p.nodes) = Len(st)
           /\ Len(p.dir) = Len(st)
           /\ \A i \in 1..Len(st) :
                 /\ st[i] # <<>>
                 /\ p.dir[i] = (st[i][Len(st[i])] = "+")
                 /\ p.nodes[i] = IF numeric THEN DecVal(SubSeq(st[i], 1, Len(st[i]) - 1))
                                  ELSE SubSeq(st[i], 1, Len(st[i]) - 1)
           /\ Len(f) = 3 => p.overlap = [i \in 1..Len(st) |-> <<"*">>]

C12_ContainmentFields ==
    /\ GfaParsed /\ call.edges =>
          LET cl == LinesTagged("C")
          IN  /\ Len(gfa.containments) = Len(cl)
              /\ \A k \in 1..Len(cl) :
                    /\ Len(Fields(cl[k])) >= 7
                    /\ gfa.containments[k].pos = DecVal(Fields(cl[k])[6])
                    /\ gfa.containments[k].overlap = Fields(cl[k])[7]
    /\ NCParsed /\ call.edges => Len(nc.edges.val) = Len(NCLinesTagged("L"))

\* The decimal text of an integer.
NumberText(n) == IF n < 0 THEN <<"-">> \o to_string(0 - n) ELSE to_string(n)

\* C13: the distance of a J record is stored as a number: -1 for '*',
\* otherwise the number the field denotes (compared by decimal text, the
\* form the stored field has).
C13_JumpDistance ==
    GfaParsed =>
       LET jl == LinesTagged("J")
       IN  /\ Len(gfa.jumps) = Len(jl)
           /\ \A k \in 1..Len(jl) :
                 /\ Len(Fields(jl[k])) >= 6
                 /\ gfa.jumps[k].distance =
                       NumberText(IF Fields(jl[k])[6] = <<"*">> THEN 0 - 1
                                  ELSE DecVal(Fields(jl[k])[6]))

\* An orientation field of the record is neither "+" nor "-".
BadOrientation(l) ==
    /\ Len(Fields(l)) >= 5
    /\ \/ Fields(l)[3] \notin {<<"+">>, <<"-">>}
       \/ Fields(l)[5] \notin {<<"+">>, <<"-">>}

HasBadOrientation(tag) == \E k \in 1..Len(LinesTagged(tag)) : BadOrientation(LinesTagged(tag)[k])

\* C14: an L, C or J record with an orientation field other than '+' or
\* '-' makes the parse fail: no parse that returned, and that decodes
\* these records, has read such a record.
C14_OrientationIsFatal ==
    /\ GfaParsed /\ call.edges => ~HasBadOrientation("L") /\ ~HasBadOrientation("C")
    /\ GfaParsed => ~HasBadOrientation("J")
    /\ NCParsed /\ call.edges => ~HasBadOrientation("L")

\* The record tags of the format.
KnownTags == { <<t>> : t \in {"H", "S", "L", "P", "W", "C", "J", "G", "F", "E", "O", "U"} }

\* A blank line, or a line whose leading tag is no record tag.
Ignorable(l) == split_whitespace(l) = <<>> \/ split_whitespace(l)[1] \notin KnownTags

WithoutIgnorable == FileOf(SelectSeq(file.lines, LAMBDA l : ~Ignorable(l)))

\* Gfa::parse_gfa_file was called and no later call was made.
GfaCalled ==
    call.op = "Gfa::parse_gfa_file" /\ file.exists /\ pc \in {"gfa", "panic"} /\ ~res.panic

\* NCGfa::parse_gfa_file was called and no later call was made.
NCCalled == call.op = "NCGfa::parse_gfa_file" /\ file.exists /\ pc \in {"nc", "panic"}

\* C15: blank lines and lines with an unknown tag are ignored: whenever
\* the file without these lines parses, the file parses too and to the
\* same graph.  For Gfa and for NCGfa.
C15_IgnoredLines ==
    /\ GfaCalled =>
          LET r == Gfa_parse_gfa_file(Gfa_new, WithoutIgnorable, call.edges, call.optVec)
          IN  ~r.panic => pc # "panic" /\ gfa = r.g
    /\ NCCalled =>
          LET r == NCGfa_parse_gfa_file(NCGfa_new, WithoutIgnorable, call.edges, call.optVec)
          IN  ~r.panic => pc # "panic" /\ nc = r.g

\* C16: the header of the parsed graph is the one of the first H line
\* of the file.  For Gfa and for NCGfa.
C16_FirstHeader ==
    /\ GfaParsed /\ LinesTagged("H") # <<>> =>
          gfa.header = Header_from_string(LinesTagged("H")[1]).val
    /\ NCParsed /\ LinesTagged("H") # <<>> =>
          nc.header = Header_from_string(LinesTagged("H")[1]).val

\* C17: the segments are decoded under the version of the first H line
\* of the file, wherever that line stands: whenever the records decode
\* under that version, the parse returns them.
C17_VersionOfFirstH ==
    GfaCalled /\ LinesTagged("H") # <<>> =>
       LET v == get_version(<<LinesTagged("H")[1]>>)
           acc0 == [panic |-> FALSE, nodes |-> <<>>, links |-> <<>>, header |-> EmptyHeader,
                    paths |-> <<>>, containments |-> <<>>, walk |-> <<>>, jumps |-> <<>>, edges |-> <<>>]
           acc == Gfa_lines(acc0, file.lines, 1, v.below2, call.edges, call.optVec)
       IN  v.ok /\ ~acc.panic => pc # "panic" /\ gfa.segments = acc.nodes

\* The line with every run of whitespace between fields made one tab.
ToTabs(l) == Tabbed(split_whitespace(l))

TabbedFile == FileOf([i \in 1..Len(file.lines) |-> ToTabs(file.lines[i])])

\* C18: a line decodes to the same record whether its fields are
\* separated by tabs or by other whitespace: whenever the file with tabs
\* for the separators parses, the file parses too and to the same graph.
C18_SeparatorIndependent ==
    /\ GfaCalled =>
          LET r == Gfa_parse_gfa_file(Gfa_new, TabbedFile, call.edges, call.optVec)
          IN  ~r.panic => pc # "panic" /\ gfa = r.g
    /\ NCCalled =>
          LET r == NCGfa_parse_gfa_file(NCGfa_new, TabbedFile, call.edges, call.optVec)
          IN  ~r.panic => pc # "panic" /\ nc = r.g

\* C19: vec_is_digit of a non-empty slice is true iff every string of
\* the slice consists of ASCII digits only.
C19_VecIsDigit ==
    pc = "digit" /\ gfa.segments # <<>> =>
       res.val = (\A i \in 1..Len(gfa.segments) :
                     \A j \in 1..Len(gfa.segments[i].name) :
                        is_ascii_digit(gfa.segments[i].name[j]))

\* The names of the segments of the parsed Gfa are pairwise distinct.
DistinctNames ==
    \A i, j \in 1..Len(gfa.segments) : gfa.segments[i].name = gfa.segments[j].name => i = j

\* C20: for a Gfa with pairwise distinct segment names,
\* convert_to_ncgraph yields as many nodes as segments, with the ids
\* 1..n in ascending order, node i carrying the sequence of the i-th
\* segment and mapper[i-1] being that segment's name.
C20_ConvertToNc ==
    pc = "ncgraph" /\ DistinctNames =>
       LET n == Len(gfa.segments)
       IN  /\ Len(nc.nodes) = n
           /\ \A i \in 1..n :
                 /\ nc.nodes[i].id = i
                 /\ nc.nodes[i].seq = gfa.segments[i].sequence
           /\ nc.mapper.some
           /\ Len(nc.mapper.val) = n
           /\ \A i \in 1..n : nc.mapper.val[i] = gfa.segments[i].name

\* A Gfa with the segments "2" and "1", in this order, was converted:
\* the ids differ from the names and the mapper leads back.
C20_Witness ==
    /\ pc = "ncgraph" /\ DistinctNames
    /\ Len(nc.nodes) = 2
    /\ nc.mapper.val = << <<"2">>, <<"1">> >>
    /\ nc.nodes[1].seq = <<"G">>

\* C21: after any sequence of NCGfa::parse_gfa_file calls on one graph,
\* each on an existing file that parses, the nodes are sorted ascending
\* by id.
C21_SortedAfterEveryParse ==
    pc \in {"nc", "nc2"} /\ file.exists =>
       Ascending([i \in 1..Len(nc.nodes) |-> <<nc.nodes[i].id>>])

\* The value of the bits of `ends` the position fields of an E record
\* call for: bit b is set iff its field ends with '$'.
EndsOf(f) ==
    (IF ends_with_dollar(f[5]) THEN 1 ELSE 0) + (IF ends_with_dollar(f[6]) THEN 2 ELSE 0)
    + (IF ends_with_dollar(f[7]) THEN 4 ELSE 0) + (IF ends_with_dollar(f[8]) THEN 8 ELSE 0)

\* The number of a position field without its trailing '$'.
PositionOf(t) == DecVal(IF ends_with_dollar(t) THEN SubSeq(t, 1, Len(t) - 1) ELSE t)

\* The step texts a path of an NCGfa should be written with: the decimal
\* node id followed by the orientation sign.
StepTexts(p) ==
    [i \in 1..Len(p.nodes) |-> to_string(p.nodes[i]) \o Sign(p.dir[i])]

\* The lines of a written text that start with the tag t.
WrittenTagged(text, t) ==
    SelectSeq(Split(text, {LF}), LAMBDA l : l # <<>> /\ Split(l, {TAB})[1] = <<t>>)

LastField(l) == Split(l, {TAB})[Len(Split(l, {TAB}))]

\* C22: to_file on an NCGfa without a mapper does not fail and writes
\* each path with its steps as numeric node id and orientation sign.
C22_ToFileWithoutMapper ==
    [][NCToFile /\ ~nc.mapper.some =>
          /\ pc' = "written"
          /\ LET ps == WrittenTagged(res'.val, "P")
             IN  /\ Len(ps) = Len(nc.paths)
                 /\ \A k \in 1..Len(ps) :
                       LastField(ps[k]) = Join(StepTexts(nc.paths[k]), <<",">>)]_vars

\* C23: remove_mapper sets the mapper to None exactly when a mapper is
\* present whose entry at every position i (from 0) is the decimal text
\* of i + 1, leaves it unchanged otherwise, and changes nothing else.
C23_RemoveMapper ==
    [][RemoveMapper =>
          LET numeric == /\ nc.mapper.some
                         /\ \A i \in 1..Len(nc.mapper.val) :
                               nc.mapper.val[i] = to_string(i)
          IN  /\ nc'.mapper = (IF numeric THEN None ELSE nc.mapper)
              /\ nc'.header = nc.header
              /\ nc'.nodes = nc.nodes
              /\ nc'.paths = nc.paths
              /\ nc'.edges = nc.edges
              /\ nc'.walk = nc.walk]_vars

\* A converted graph of the segments "1" and "2" lost its mapper.
C23_Witness ==
    /\ pc = "removed"
    /\ call.op = "Gfa::parse_gfa_file"
    /\ ~nc.mapper.some
    /\ Len(nc.nodes) = 2

\* C24: remove_mapper does not change the answer of check_numeric.
C24_CheckNumericStable ==
    [][RemoveMapper => NCGfa_check_numeric(nc') = NCGfa_check_numeric(nc)]_vars

\* C25: the edges of a converted graph are the links of the Gfa in
\* order, each with the same orientations and the same overlap text.
C25_LinkContent ==
    pc = "ncgraph" /\ gfa.links.some =>
       /\ nc.edges.some
       /\ Len(nc.edges.val) = Len(gfa.links.val)
       /\ \A i \in 1..Len(gfa.links.val) :
             i <= Len(nc.edges.val) =>
                /\ nc.edges.val[i].from_dir = gfa.links.val[i].from_dir
                /\ nc.edges.val[i].to_dir = gfa.links.val[i].to_dir
                /\ nc.edges.val[i].overlap = gfa.links.val[i].overlap

\* C26: convert_to_ncgraph completes for every parsed Gfa.
C26_ConvertCompletes ==
    [][ConvertToNc => pc' = "ncgraph"]_vars

\* C27: every E line of the parsed file has its edge, whose positions
\* are the position fields without a trailing '$' and whose `ends` has
\* bit 1, 2, 4, 8 set iff source_begin, source_end, sink_begin, sink_end
\* ends with '$'.
C27_EdgeEnds ==
    GfaParsed =>
       LET el == LinesTagged("E")
       IN  /\ Len(gfa.edges) = Len(el)
           /\ \A k \in 1..Len(el) :
                 /\ Len(Fields(el[k])) >= 9
                 /\ gfa.edges[k].source_begin = PositionOf(Fields(el[k])[5])
                 /\ gfa.edges[k].source_end = PositionOf(Fields(el[k])[6])
                 /\ gfa.edges[k].sink_begin = PositionOf(Fields(el[k])[7])
                 /\ gfa.edges[k].sink_end = PositionOf(Fields(el[k])[8])
                 /\ gfa.edges[k].ends = EndsOf(Fields(el[k]))

\* The path references held by the haplotypes of the samples, in order.
RefsOf(genomes) ==
    Join([x \in 1..Len(genomes) |->
            Join([y \in 1..Len(genomes[x].haplotypes) |->
                    genomes[x].haplotypes[y].paths], <<>>)], <<>>)

\* Each of the n input paths occurs exactly once among the references,
\* and nothing else does.
ExactlyOnce(refs, n) ==
    /\ \A k \in 1..Len(refs) : refs[k] \in 1..n
    /\ \A i \in 1..n : Cardinality({k \in 1..Len(refs) : refs[k] = i}) = 1

Grouped == pc \in {"pansn", "got"}

\* C28: for every list of paths and every delimiter, each input path
\* is referenced by exactly one haplotype of exactly one sample, once;
\* get_paths_direct has one entry per path, and the lists of
\* get_path_genome and of get_haplo_path hold each path exactly once.
C28_Partition ==
    Grouped =>
       LET n == Len(gfa.paths)
       IN  /\ ExactlyOnce(RefsOf(res.val), n)
           /\ pc = "got" =>
                 /\ ExactlyOnce(Join([k \in 1..Len(res.out) |-> res.out[k].paths], <<>>), n)
                 /\ call.get = "get_paths_direct" =>
                       /\ Len(res.out) = n
                       /\ \A k \in 1..Len(res.out) : Len(res.out[k].paths) = 1

\* Three paths were grouped into two samples and read back per sample.
C28_Witness ==
    /\ pc = "got"
    /\ call.get = "get_path_genome"
    /\ Len(gfa.paths) = 3
    /\ Len(res.out) = 2

\* The parts of the name of the i-th input path.
Parts(i) == SplitStr(gfa.paths[i].name, call.del)

\* The least element of a set of positions, 0 for the empty set.
First(S) == IF S = {} THEN 0 ELSE CHOOSE i \in S : \A j \in S : i <= j

\* The delimiter is not the space and every name has three parts.
IsPansn == Grouped /\ call.del # <<SPACE>> /\ PansnSpec(gfa.paths, call.del)

\* C29: with a delimiter other than " " and names of exactly three
\* parts, sample names are distinct, haplotype names are distinct
\* within a sample, a path lies in sample s and haplotype h iff its
\* first two parts are s and h, and samples, haplotypes and paths
\* appear in order of first occurrence.
C29_Grouping ==
    IsPansn =>
       LET g == res.val
           n == Len(gfa.paths)
           firstS(x) == First({i \in 1..n : Parts(i)[1] = g[x].name})
           firstH(x, y) == First({i \in 1..n : /\ Parts(i)[1] = g[x].name
                                               /\ Parts(i)[2] = g[x].haplotypes[y].name})
       IN  /\ \A x1, x2 \in 1..Len(g) : g[x1].name = g[x2].name => x1 = x2
           /\ \A x \in 1..Len(g) :
                 LET h == g[x].haplotypes
                 IN  /\ \A y1, y2 \in 1..Len(h) : h[y1].name = h[y2].name => y1 = y2
                     /\ \A y \in 1..Len(h) :
                           /\ \A i \in 1..n :
                                 (\E k \in 1..Len(h[y].paths) : h[y].paths[k] = i)
                                    <=> (Parts(i)[1] = g[x].name /\ Parts(i)[2] = h[y].name)
                           /\ \A k1, k2 \in 1..Len(h[y].paths) :
                                 k1 < k2 => h[y].paths[k1] < h[y].paths[k2]
                     /\ \A y1, y2 \in 1..Len(h) :
                           y1 < y2 => firstH(x, y1) < firstH(x, y2)
           /\ \A x1, x2 \in 1..Len(g) : x1 < x2 => firstS(x1) < firstS(x2)

\* The names a#1#c, a#2#c, a#1#d (in an order like this) were grouped
\* by "#": one sample, two haplotypes, the first with the paths 1 and 3.
C29_Witness ==
    /\ IsPansn
    /\ call.del = <<"#">>
    /\ Len(res.val) = 1
    /\ Len(res.val[1].haplotypes) = 2
    /\ res.val[1].haplotypes[1].paths = <<1, 3>>

\* The delimiter is the space or some name has not three parts.
NoPansn == Grouped /\ (call.del = <<SPACE>> \/ ~PansnSpec(gfa.paths, call.del))

\* C30: with the delimiter " ", or a name that has not exactly three
\* parts, every path is its own sample with a single haplotype holding
\* only that path, both named with the full path name, in input order;
\* from_graph never ends in its 'No Pansn' failure.
C30_SinglePaths ==
    /\ NoPansn =>
          /\ Len(res.val) = Len(gfa.paths)
          /\ \A i \in 1..Len(gfa.paths) :
                i <= Len(res.val) =>
                   /\ res.val[i].name = gfa.paths[i].name
                   /\ Len(res.val[i].haplotypes) = 1
                   /\ res.val[i].haplotypes[1].name = gfa.paths[i].name
                   /\ res.val[i].haplotypes[1].paths = <<i>>
    /\ call.op = "Pansn::from_graph" => pc # "panic"

\* Two paths whose names have three parts between spaces were grouped
\* with the delimiter " ".
C30_Witness ==
    /\ NoPansn
    /\ call.del = <<SPACE>>
    /\ PansnSpec(gfa.paths, call.del)
    /\ Len(gfa.paths) = 2

====
